---- MODULE Spec2Model ----
(***************************************************************************)
(* A model of exquisite_corpus: the multi-source median merger and the     *)
(* count-file converter of freq.py, and the markdown stripper, the         *)
(* decompression dispatcher and the Reddit filter of preprocess.py.        *)
(*                                                                         *)
(* Floating-point frequencies are modelled as exact rationals <<n, d>>     *)
(* in lowest terms (d > 0), measured in units of 5e-9 (half the 1e-8       *)
(* threshold of merge_freqs), so that values below, at and above the       *)
(* threshold are representable in bounded integers.  The values that       *)
(* merge_freqs returns are ratios (median / total * 0.99) and carry no     *)
(* unit.                                                                   *)
(***************************************************************************)
EXTENDS Integers, Sequences, FiniteSets, TLC

VARIABLES
    \* ---- merge_freqs -------------------------------------------------
    freq_dicts,     \* the argument: a sequence of word -> frequency maps
    vocab,          \* terms of `vocab` not yet visited by the first loop
    medians,        \* term -> the local `median` computed for it
    merged,         \* the `merged` dictionary
    total,          \* the local `total` (None before it is computed)
    todo,           \* terms of `merged` the normalisation loop has not reached
    mpc,            \* position in merge_freqs
    \* ---- merge_count_files_to_freqs -----------------------------------
    input_filenames,\* the number of count files named by the argument
    seen,           \* the lines read so far from the file being read
    file_total,     \* the local `total` of the file loop
    freq_dict,      \* the local `freq_dict` of the file loop
    file_freq_dicts,\* the local `freq_dicts`
    merged_dict,    \* the local `merged_dict`
    written,        \* the lines printed to the output file
    cerror,         \* the exception that ended the function, if any
    cpc,            \* position in merge_count_files_to_freqs
    \* ---- preprocess_reddit --------------------------------------------
    input_filename, \* the argument
    archive,        \* the lines of the file of that name, decompressed
    handle,         \* the file handle and decompression stream over it
    input_lines,    \* the local `input_lines`: None, or the lines left to read
    yielded,        \* the positions in `archive` of the lines that yielded
    outfile,        \* the lines printed to `outfile`
    rerror,         \* the exception that ended the function, if any
    rpc,            \* position in preprocess_reddit
    \* ---- strip_markdown -----------------------------------------------
    md_input,       \* the argument
    text,           \* the local `text`
    format_re,      \* the index of the next pattern of MARKDOWN_FORMAT_RES
    mdpc            \* position in strip_markdown

mergeVars == <<freq_dicts, vocab, medians, merged, total, todo, mpc>>
countVars == <<input_filenames, seen, file_total, freq_dict, file_freq_dicts,
               merged_dict, written, cerror, cpc>>

redditVars == <<input_filename, archive, handle, input_lines, yielded, outfile,
                rerror, rpc>>
mdVars == <<md_input, text, format_re, mdpc>>

vars == <<mergeVars, countVars, redditVars, mdVars>>

\* Python's None, for a variable that otherwise holds a rational <<n, d>> or
\* an integer n, held as <<n>>; and the absence of an exception.
None == << >>
NoError == "none"

(***************************************************************************)
(* Exact rational arithmetic.                                              *)
(***************************************************************************)
RECURSIVE GCD(_, _)
GCD(a, b) == IF b = 0 THEN a ELSE GCD(b, a % b)

Abs(x) == IF x < 0 THEN -x ELSE x

Rat(n, d) ==
    LET g == GCD(Abs(n), Abs(d))
        s == IF d < 0 THEN -1 ELSE 1
    IN  <<(s * n) \div g, (s * d) \div g>>

RAdd(x, y) == Rat(x[1] * y[2] + y[1] * x[2], x[2] * y[2])
RMul(x, y) == Rat(x[1] * y[1], x[2] * y[2])
RDiv(x, y) == Rat(x[1] * y[2], x[2] * y[1])
RLess(x, y) == x[1] * y[2] < y[1] * x[2]
RZero == <<0, 1>>

RECURSIVE RSumOver(_, _)
RSumOver(f, S) ==
    IF S = {} THEN RZero
    ELSE LET k == CHOOSE k \in S : TRUE
         IN  RAdd(f[k], RSumOver(f, S \ {k}))

\* sum(d.values()) of a dictionary of rationals
RSum(f) == RSumOver(f, DOMAIN f)

(***************************************************************************)
(* Text: a string is a sequence of characters, each a one-character string *)
(* ("zwsp" is U+200B, "lsquo" and "rsquo" are the curly apostrophes).      *)
(***************************************************************************)
\* Characters the patterns' \w does not match; every other one is a word character.
NonWordChars ==
    {" ", "\n", "\r", "*", "~", "[", "]", "(", ")", ">", "#", "-", ":", "/",
     ".", "'", "?", "&", ";", "zwsp", "lsquo", "rsquo"}

IsWordChar(c) == c \notin NonWordChars

\* s[i .. j], empty when j < i
Slice(s, i, j) == IF j < i THEN <<>> ELSE SubSeq(s, i, j)

\* Does pat occur in s at position i?
StartsAt(s, i, pat) ==
    /\ i + Len(pat) - 1 <= Len(s)
    /\ \A k \in 1 .. Len(pat) : s[i + k - 1] = pat[k]

\* The length of the longest run of characters of S in s from position i.
RECURSIVE RunIn(_, _, _)
RunIn(s, i, S) ==
    IF i <= Len(s) /\ s[i] \in S THEN 1 + RunIn(s, i + 1, S) ELSE 0

\* The length of the longest run of characters outside S in s from position i.
RECURSIVE RunNotIn(_, _, _)
RunNotIn(s, i, S) ==
    IF i <= Len(s) /\ s[i] \notin S THEN 1 + RunNotIn(s, i + 1, S) ELSE 0

\* str.replace(old, new) from position i on
RECURSIVE ReplaceFrom(_, _, _, _)
ReplaceFrom(s, i, old, new) ==
    IF i > Len(s) THEN <<>>
    ELSE IF StartsAt(s, i, old)
         THEN new \o ReplaceFrom(s, i + Len(old), old, new)
         ELSE <<s[i]>> \o ReplaceFrom(s, i + 1, old, new)

Replace(s, old, new) == ReplaceFrom(s, 1, old, new)

\* str.lstrip(chars)
LStrip(s, chars) == Slice(s, RunIn(s, 1, chars) + 1, Len(s))

\* The length of the longest run of characters of S that ends s[1 .. j].
RECURSIVE RunBack(_, _, _)
RunBack(s, j, S) ==
    IF j >= 1 /\ s[j] \in S THEN 1 + RunBack(s, j - 1, S) ELSE 0

\* str.rstrip(chars)
RStrip(s, chars) == Slice(s, 1, Len(s) - RunBack(s, Len(s), chars))

\* str.strip(chars)
Strip(s, chars) == RStrip(LStrip(s, chars), chars)

\* str.split(sep) for a one-character separator: a non-empty sequence of pieces
RECURSIVE Split(_, _)
Split(s, sep) ==
    LET n == RunNotIn(s, 1, {sep})
    IN  IF n = Len(s) THEN <<s>>
        ELSE <<Slice(s, 1, n)>> \o Split(Slice(s, n + 2, Len(s)), sep)

\* sep.join(pieces)
RECURSIVE Join(_, _)
Join(pieces, sep) ==
    IF pieces = <<>> THEN <<>>
    ELSE IF Len(pieces) = 1 THEN pieces[1]
         ELSE pieces[1] \o sep \o Join(Tail(pieces), sep)

HTTP == <<"h", "t", "t", "p", ":", "/", "/">>
HTTPS == <<"h", "t", "t", "p", "s", ":", "/", "/">>

(***************************************************************************)
(* strip_markdown                                                          *)
(***************************************************************************)
\* MARKDOWN_URL_RE at position i: <<end of the match, \1\2>>, or <<0, <<>>>>.
\* [^\]]+ , \]* and [^)]+ are each followed by a character they exclude, so
\* each takes its longest run and no shorter one can match.
MarkdownUrlMatch(s, i) ==
    LET t == RunNotIn(s, i + 1, {"]"})
        j == i + 1 + t                      \* the closing bracket
        e == RunIn(s, j + 1, {"]"})
        k == j + 1 + e                      \* the left parenthesis
        u == RunNotIn(s, k + 1, {")"})
        l == k + 1 + u                      \* the right parenthesis
    IN  IF /\ i <= Len(s) /\ s[i] = "["
           /\ t >= 1
           /\ j <= Len(s) /\ s[j] = "]"
           /\ k <= Len(s) /\ s[k] = "("
           /\ u >= 1
           /\ l <= Len(s) /\ s[l] = ")"
        THEN <<l, Slice(s, i + 1, j - 1) \o Slice(s, j + 1, k - 1)>>
        ELSE <<0, <<>>>>

\* URL_RE at position i: the end of the match, or 0.
UrlMatch(s, i) ==
    LET p == IF StartsAt(s, i, HTTPS) THEN Len(HTTPS)
             ELSE IF StartsAt(s, i, HTTP) THEN Len(HTTP)
             ELSE 0
    IN  IF p = 0 THEN 0
        ELSE i + p + RunNotIn(s, i + p, {" "}) - 1

\* MARKDOWN_FORMAT_RES for the character c at position i: <<end, \2>> or
\* <<0, <<>>>>.  ([c]+) must take the whole run of c (the content cannot
\* start with c), the content is the whole run of other characters, and the
\* closing \1 is followed by no word character.
FormatMatch(s, i, c) ==
    LET m == RunIn(s, i, {c})
        n == RunNotIn(s, i + m, {c})
        close == RunIn(s, i + m + n, {c})
        after == i + m + n + m
    IN  IF /\ (i = 1 \/ ~IsWordChar(s[i - 1]))
           /\ m >= 1
           /\ n >= 1
           /\ close >= m
           /\ (after > Len(s) \/ ~IsWordChar(s[after]))
        THEN <<after - 1, Slice(s, i + m, i + m + n - 1)>>
        ELSE <<0, <<>>>>

\* MARKDOWN_URL_RE.sub(r'\1\2', text) from position i on
RECURSIVE SubMarkdownUrl(_, _)
SubMarkdownUrl(s, i) ==
    IF i > Len(s) THEN <<>>
    ELSE LET mt == MarkdownUrlMatch(s, i)
         IN  IF mt[1] > 0
             THEN mt[2] \o SubMarkdownUrl(s, mt[1] + 1)
             ELSE <<s[i]>> \o SubMarkdownUrl(s, i + 1)

\* A faulty variant: a bare URL is replaced by a single space.
RECURSIVE SubUrlSpace(_, _)
SubUrlSpace(s, i) ==
    IF i > Len(s) THEN <<>>
    ELSE LET end == UrlMatch(s, i)
         IN  IF end > 0
             THEN <<" ">> \o SubUrlSpace(s, end + 1)
             ELSE <<s[i]>> \o SubUrlSpace(s, i + 1)

\* URL_RE.sub('', text) from position i on
RECURSIVE SubUrl(_, _)
SubUrl(s, i) ==
    IF i > Len(s) THEN <<>>
    ELSE LET end == UrlMatch(s, i)
         IN  IF end > 0
             THEN SubUrl(s, end + 1)
             ELSE <<s[i]>> \o SubUrl(s, i + 1)

\* format_re.sub(r'\2', text) from position i on, for the character c
RECURSIVE SubFormat(_, _, _)
SubFormat(s, i, c) ==
    IF i > Len(s) THEN <<>>
    ELSE LET mt == FormatMatch(s, i, c)
         IN  IF mt[1] > 0
             THEN mt[2] \o SubFormat(s, mt[1] + 1, c)
             ELSE <<s[i]>> \o SubFormat(s, i + 1, c)

\* The characters of MARKDOWN_FORMAT_RES, in order.
FormatChars == <<"*", "_", "~">>

\* The characters lstrip removes from the start of every line.
LinePrefixChars == {">", "#", "*", "-", " "}

\* ' '.join(line.lstrip(">#*- ") for line in text.split('\n'))
StripLinePrefixes(s) ==
    LET pieces == Split(s, "\n")
    IN  Join([p \in 1 .. Len(pieces) |-> LStrip(pieces[p], LinePrefixChars)], <<" ">>)

\* strip_markdown as a function of its argument
StripMarkdown(s) ==
    StripLinePrefixes(
        SubFormat(SubFormat(SubFormat(SubUrl(SubMarkdownUrl(s, 1), 1),
                                      1, FormatChars[1]),
                            1, FormatChars[2]),
                  1, FormatChars[3]))

(***************************************************************************)
(* merge_freqs                                                             *)
(***************************************************************************)
\* Bounds of the inputs.
MaxSources == 4
MaxFreq == 3

\* 1e-8 in units of 5e-9, and the number of low values that count as zeros.
Threshold == 2
MaxMissing == 2
ThresholdFreq == Rat(Threshold, 1)

\* The input frequencies, in units of 5e-9: 1 is below the threshold.
Freqs == { Rat(k, 1) : k \in 1 .. MaxFreq }

\* "cat" takes every frequency; "dog" is absent or carries the top frequency.
Words == {"cat", "dog"}
FreqDicts ==
    { [w \in D |-> IF w = "cat" THEN c ELSE Rat(MaxFreq, 1)] :
        D \in SUBSET Words, c \in Freqs }

DictLists == UNION { [1 .. n -> FreqDicts] : n \in 0 .. MaxSources }

\* freq_dict.get(term, 0.)
Get(dict, term) ==
    IF term \in DOMAIN dict THEN dict[term] ELSE RZero

\* vocab: the union of the keys
Vocab(dicts) == UNION { DOMAIN dicts[i] : i \in 1 .. Len(dicts) }

\* A faulty variant: a low value is appended as it is, not as a literal zero.
RECURSIVE CandidatesTiny(_, _, _)
CandidatesTiny(term, dicts, missing_values) ==
    IF dicts = <<>> THEN <<>>
    ELSE LET freq == Get(Head(dicts), term)
         IN  IF RLess(freq, ThresholdFreq)
             THEN IF missing_values + 1 > MaxMissing
                  THEN CandidatesTiny(term, Tail(dicts), missing_values + 1)
                  ELSE <<freq>> \o CandidatesTiny(term, Tail(dicts), missing_values + 1)
             ELSE <<freq>> \o CandidatesTiny(term, Tail(dicts), missing_values)

\* A faulty variant: a low value is never appended, not even the first two.
RECURSIVE CandidatesSkipLow(_, _, _)
CandidatesSkipLow(term, dicts, missing_values) ==
    IF dicts = <<>> THEN <<>>
    ELSE LET freq == Get(Head(dicts), term)
         IN  IF RLess(freq, ThresholdFreq)
             THEN CandidatesSkipLow(term, Tail(dicts), missing_values + 1)
             ELSE <<freq>> \o CandidatesSkipLow(term, Tail(dicts), missing_values)

\* The inner loop over freq_dicts: the list `freqs` built for one term.
RECURSIVE Candidates(_, _, _)
Candidates(term, dicts, missing_values) ==
    IF dicts = <<>> THEN <<>>
    ELSE LET freq == Get(Head(dicts), term)
         IN  IF RLess(freq, ThresholdFreq)
             THEN IF missing_values + 1 > MaxMissing
                  THEN Candidates(term, Tail(dicts), missing_values + 1)
                  ELSE <<RZero>> \o Candidates(term, Tail(dicts), missing_values + 1)
             ELSE <<freq>> \o Candidates(term, Tail(dicts), missing_values)

\* A faulty variant: statistics.median_low, the lower of the two middle values.
MedianLow(freqs) ==
    LET data == SortSeq(freqs, RLess)
        n == Len(data)
    IN  IF n % 2 = 1
        THEN data[(n \div 2) + 1]
        ELSE data[n \div 2]

\* statistics.median of a non-empty list, as a rational
Median(freqs) ==
    LET data == SortSeq(freqs, RLess)
        n == Len(data)
    IN  IF n % 2 = 1
        THEN data[(n \div 2) + 1]
        ELSE RMul(RAdd(data[n \div 2], data[(n \div 2) + 1]), Rat(1, 2))

\* The median of one term, None when `freqs` is empty.
TermMedian(term, dicts) ==
    LET freqs == Candidates(term, dicts, 0)
    IN  IF freqs # <<>> THEN Median(freqs) ELSE None

\* A faulty variant: the division without the 0.99 factor.
NormalizeValueNoScale(value, sum) == RDiv(value, sum)

\* merged[term] / total * 0.99
NormalizeValue(value, sum) == RMul(RDiv(value, sum), Rat(99, 100))

\* merge_freqs as a function of its argument.
MergeFreqs(dicts) ==
    LET all == [t \in Vocab(dicts) |-> TermMedian(t, dicts)]
        kept == { t \in DOMAIN all : all[t] # None /\ RLess(RZero, all[t]) }
        sum == RSumOver(all, kept)
    IN  [t \in kept |-> NormalizeValue(all[t], sum)]

\* The variables of merge_freqs while another function is the one running.
IdleMerge ==
    /\ freq_dicts = << >>
    /\ vocab = {}
    /\ medians = << >>
    /\ merged = << >>
    /\ total = None
    /\ todo = {}
    /\ mpc = "idle"

\* The variables of merge_count_files_to_freqs while it is not running.
IdleCount ==
    /\ input_filenames = 0
    /\ seen = << >>
    /\ file_total = None
    /\ freq_dict = << >>
    /\ file_freq_dicts = << >>
    /\ merged_dict = << >>
    /\ written = << >>
    /\ cerror = NoError
    /\ cpc = "idle"

\* The variables of preprocess_reddit while it is not running.
IdleReddit ==
    /\ input_filename = << >>
    /\ archive = << >>
    /\ handle = "unopened"
    /\ input_lines = None
    /\ yielded = {}
    /\ outfile = << >>
    /\ rerror = NoError
    /\ rpc = "idle"

\* The variables of strip_markdown while it is not running.
IdleMarkdown ==
    /\ md_input = << >>
    /\ text = << >>
    /\ format_re = 1
    /\ mdpc = "idle"

InitMerge ==
    /\ freq_dicts \in DictLists
    /\ vocab = Vocab(freq_dicts)
    /\ medians = << >>
    /\ merged = << >>
    /\ total = None
    /\ todo = {}
    /\ mpc = "terms"
    /\ IdleCount /\ IdleReddit /\ IdleMarkdown

\* One iteration of `for term in vocab` (a set: any order).
MergeTerm ==
    /\ mpc = "terms"
    /\ \E term \in vocab :
        LET median == TermMedian(term, freq_dicts)
        IN  /\ vocab' = vocab \ {term}
            /\ medians' = (term :> median) @@ medians
            /\ merged' = IF median # None /\ RLess(RZero, median)
                         THEN (term :> median) @@ merged
                         ELSE merged
    /\ UNCHANGED <<freq_dicts, total, todo, mpc>>
    /\ UNCHANGED <<countVars, redditVars, mdVars>>

\* total = sum(merged.values()), once the first loop is exhausted
SumTotal ==
    /\ mpc = "terms"
    /\ vocab = {}
    /\ total' = RSum(merged)
    /\ todo' = DOMAIN merged
    /\ mpc' = "normalize"
    /\ UNCHANGED <<freq_dicts, vocab, medians, merged>>
    /\ UNCHANGED <<countVars, redditVars, mdVars>>

\* One iteration of `for term in merged`; a zero total raises ZeroDivisionError.
Normalize ==
    /\ mpc = "normalize"
    /\ \E term \in todo :
        IF total = RZero
        THEN /\ mpc' = "raised"
             /\ UNCHANGED <<merged, todo>>
        ELSE /\ merged' = [merged EXCEPT ![term] = NormalizeValue(merged[term], total)]
             /\ todo' = todo \ {term}
             /\ mpc' = mpc
    /\ UNCHANGED <<freq_dicts, vocab, medians, total>>
    /\ UNCHANGED <<countVars, redditVars, mdVars>>

\* return merged
ReturnMerged ==
    /\ mpc = "normalize"
    /\ todo = {}
    /\ mpc' = "returned"
    /\ UNCHANGED <<freq_dicts, vocab, medians, merged, total, todo>>
    /\ UNCHANGED <<countVars, redditVars, mdVars>>

NextMerge ==
    \/ MergeTerm
    \/ SumTotal
    \/ Normalize
    \/ ReturnMerged

SpecMerge == InitMerge /\ [][NextMerge]_vars

(***************************************************************************)
(* Properties of merge_freqs                                               *)
(***************************************************************************)
\* The sources whose value for w is at or above the threshold.
Attesting(w) ==
    { i \in 1 .. Len(freq_dicts) : ~RLess(Get(freq_dicts[i], w), ThresholdFreq) }

\* The sources whose value for w is absent or below the threshold.
LowEvidence(w) ==
    { i \in 1 .. Len(freq_dicts) : RLess(Get(freq_dicts[i], w), ThresholdFreq) }

RMin(a, b) == IF RLess(a, b) THEN a ELSE b

\* A word attested by exactly one of `least` or more sources is dropped.
DroppedWhenAlone(least) ==
    (mpc = "returned" /\ Len(freq_dicts) >= least) =>
        \A w \in Words :
            Cardinality(Attesting(w)) = 1 =>
                /\ medians[w] = RZero
                /\ w \notin DOMAIN merged

\* C1 as stated: with two or more maps, a word at or above the threshold in
\* exactly one map has a median of 0 and is not a key of the result.
C1_DropoutFromTwo == DroppedWhenAlone(2)

\* C1, amended: with three or more maps, a word at or above the threshold in
\* exactly one map (absent or below it in every other) has a median of 0 and
\* is not a key of the merged result.
C1_DropoutFromThree == DroppedWhenAlone(3)

C1_Witness ==
    /\ mpc = "returned"
    /\ Len(freq_dicts) >= 3
    /\ Cardinality(Attesting("cat")) = 1
    /\ \E i \in LowEvidence("cat") : "cat" \in DOMAIN freq_dicts[i]
    /\ "cat" \notin DOMAIN merged

C3_Normalization ==
    /\ mpc # "raised"
    /\ mpc = "returned" =>
        LET kept == { w \in DOMAIN medians :
                        medians[w] # None /\ RLess(RZero, medians[w]) }
            S == RSumOver(medians, kept)
        IN  IF kept # {}
            THEN /\ DOMAIN merged = kept
                 /\ RSum(merged) = Rat(99, 100)
                 /\ \A w \in kept :
                       merged[w] = RMul(RDiv(medians[w], S), Rat(99, 100))
            ELSE merged = << >>

C3_Witness ==
    /\ mpc = "returned"
    /\ DOMAIN merged = Words
    /\ merged["cat"] # merged["dog"]

\* The list of maps with the maps at positions i and j exchanged.
Exchanged(dicts, i, j) ==
    [k \in 1 .. Len(dicts) |->
        IF k = i THEN dicts[j] ELSE IF k = j THEN dicts[i] ELSE dicts[k]]

\* C10: the merged result has the same keys and the same values for every
\* permutation of the list of maps.  Every permutation is a product of
\* exchanges of two maps, and every list of at most MaxSources maps is an
\* argument here, so the claim is that exchanging any two maps of any list
\* leaves the result as it is.
C10_OrderIndependent ==
    mpc = "returned" =>
        \A i, j \in 1 .. Len(freq_dicts) :
            i < j => MergeFreqs(Exchanged(freq_dicts, i, j)) = merged

C10_Witness ==
    /\ mpc = "returned"
    /\ Cardinality(LowEvidence("cat")) > MaxMissing
    /\ \E i, j \in LowEvidence("cat") :
          /\ i < j
          /\ "cat" \in DOMAIN freq_dicts[i]
          /\ "cat" \notin DOMAIN freq_dicts[j]
    /\ \E i, j \in 1 .. Len(freq_dicts) :
          i < j /\ i \in Attesting("cat") /\ j \in LowEvidence("cat")
    /\ merged # << >>

(***************************************************************************)
(* merge_count_files_to_freqs                                              *)
(***************************************************************************)
\* Bounds: the number of count files and the number of lines in each.
MaxFiles == 2
MaxCountLines == 3

\* A frequency of 1.0 in units of 5e-9.
UnitsPerOne == 200000000

TOTAL == <<"_", "_", "t", "o", "t", "a", "l", "_", "_">>
CAT == <<"c", "a", "t">>

\* A line of a count file: the text before the first tab and the text after
\* it (`tab` is FALSE for a line that holds no tab).
CountLine(word, strcount) == [tab |-> TRUE, word |-> word, strcount |-> strcount]

CountLines ==
    { CountLine(TOTAL, <<"0">>), CountLine(TOTAL, <<"1">>), CountLine(TOTAL, <<"2">>),
      CountLine(CAT, <<"1">>),
      CountLine(<<"rsquo">> \o CAT \o <<"rsquo">>, <<"1">>),
      CountLine(<<"'">>, <<"1">>),
      CountLine(CAT, <<"x">>),
      [tab |-> FALSE, word |-> CAT, strcount |-> <<>>] }

\* ftfy's uncurl_quotes: curly single quotes become the straight apostrophe
UncurlQuotes(s) ==
    [k \in 1 .. Len(s) |-> IF s[k] \in {"lsquo", "rsquo"} THEN "'" ELSE s[k]]

\* uncurl_quotes(word).strip("' ")
NormalizeWord(word) == Strip(UncurlQuotes(word), {"'", " "})

Digits == <<"0", "1", "2", "3", "4", "5", "6", "7", "8", "9">>

\* Does int(strcount) succeed?  (decimal digits only)
IsInt(strcount) ==
    /\ strcount # <<>>
    /\ \A k \in 1 .. Len(strcount) : \E d \in 1 .. Len(Digits) : Digits[d] = strcount[k]

\* int(strcount)
RECURSIVE IntOf(_)
IntOf(strcount) ==
    IF strcount = <<>> THEN 0
    ELSE LET last == strcount[Len(strcount)]
             d == CHOOSE d \in 1 .. Len(Digits) : Digits[d] = last
         IN  10 * IntOf(SubSeq(strcount, 1, Len(strcount) - 1)) + (d - 1)

\* A faulty variant: `total` is set once, before the loop over the files.
TotalAtOpenCarried(previous) == previous

\* `total = None` on opening each file
TotalAtOpen(previous) == None

\* The body of `for line in infile` for one line: the exception it raises
\* (None when it raises nothing) and the new `total` and `freq_dict`.
ProcessCountLine(line, total_, dict) ==
    LET word == NormalizeWord(line.word)
        same == [error |-> NoError, total |-> total_, dict |-> dict]
    IN  IF ~line.tab
        THEN [same EXCEPT !.error = "ValueError"]
        ELSE IF word = <<>>
        THEN same
        ELSE IF ~IsInt(line.strcount)
        THEN [same EXCEPT !.error = "ValueError"]
        ELSE LET count == IntOf(line.strcount)
             IN  IF word = TOTAL
                 THEN [same EXCEPT !.total = <<count>>]
                 ELSE IF total_ = None
                 THEN [same EXCEPT !.error = "TypeError"]
                 ELSE IF total_[1] = 0
                 THEN [same EXCEPT !.error = "ZeroDivisionError"]
                 ELSE LET freq == Rat(count * UnitsPerOne, total_[1])
                      IN  [same EXCEPT !.dict =
                              IF word \in DOMAIN dict
                              THEN [dict EXCEPT ![word] = RAdd(dict[word], freq)]
                              ELSE (word :> freq) @@ dict]

\* 1e-9, the frequency below which the output stops, as 1 / MinWrittenInverse
MinWrittenInverse == 1000000000

\* freq < 1e-9, for a merged (unit-free) frequency
BelowMinWritten(freq) ==
    \/ freq[1] <= 0
    \/ /\ freq[2] \div MinWrittenInverse >= freq[1]
       /\ freq[1] * MinWrittenInverse < freq[2]

\* The orders sorted(..., key=itemgetter(1), reverse=True) can give the items.
SortedItems(dict) ==
    { order \in [1 .. Cardinality(DOMAIN dict) -> DOMAIN dict] :
        /\ \A a, b \in DOMAIN order : a # b => order[a] # order[b]
        /\ \A a, b \in DOMAIN order :
              a < b => ~RLess(dict[order[a]], dict[order[b]]) }

\* The lines the output loop prints: the items up to the first one below 1e-9.
RECURSIVE PrintedItems(_, _)
PrintedItems(order, dict) ==
    IF order = <<>> \/ BelowMinWritten(dict[Head(order)]) THEN <<>>
    ELSE <<<<Head(order), dict[Head(order)]>>>> \o PrintedItems(Tail(order), dict)

InitCount ==
    /\ input_filenames \in 0 .. MaxFiles
    /\ seen = << >>
    /\ file_total = None
    /\ freq_dict = << >>
    /\ file_freq_dicts = << >>
    /\ merged_dict = << >>
    /\ written = << >>
    /\ cerror = NoError
    /\ cpc = "files"
    /\ IdleMerge /\ IdleReddit /\ IdleMarkdown

\* `for input_filename in input_filenames`: open the next file
OpenCountFile ==
    /\ cpc = "files"
    /\ Len(file_freq_dicts) < input_filenames
    /\ freq_dict' = << >>
    /\ file_total' = TotalAtOpen(file_total)
    /\ seen' = << >>
    /\ cpc' = "lines"
    /\ UNCHANGED <<input_filenames, file_freq_dicts, merged_dict, written, cerror>>
    /\ UNCHANGED <<mergeVars, redditVars, mdVars>>

\* `for line in infile`: one line of the open file
ReadCountLine ==
    /\ cpc = "lines"
    /\ Len(seen) < MaxCountLines
    /\ \E line \in CountLines :
        LET r == ProcessCountLine(line, file_total, freq_dict)
        IN  /\ seen' = Append(seen, line)
            /\ file_total' = r.total
            /\ freq_dict' = r.dict
            /\ cerror' = r.error
            /\ cpc' = IF r.error = NoError THEN "lines" ELSE "raised"
    /\ UNCHANGED <<input_filenames, file_freq_dicts, merged_dict, written>>
    /\ UNCHANGED <<mergeVars, redditVars, mdVars>>

\* The end of the open file: freq_dicts.append(freq_dict)
CloseCountFile ==
    /\ cpc = "lines"
    /\ file_freq_dicts' = Append(file_freq_dicts, freq_dict)
    /\ cpc' = "files"
    /\ UNCHANGED <<input_filenames, seen, file_total, freq_dict, merged_dict,
                   written, cerror>>
    /\ UNCHANGED <<mergeVars, redditVars, mdVars>>

\* After the last file: merge, sort and print (the '{:.5g}' rendering of a
\* frequency is not modelled; a printed line holds the value itself).
MergeAndWrite ==
    /\ cpc = "files"
    /\ Len(file_freq_dicts) = input_filenames
    /\ merged_dict' = MergeFreqs(file_freq_dicts)
    /\ \E order \in SortedItems(merged_dict') :
          written' = PrintedItems(order, merged_dict')
    /\ cpc' = "done"
    /\ UNCHANGED <<input_filenames, seen, file_total, freq_dict, file_freq_dicts, cerror>>
    /\ UNCHANGED <<mergeVars, redditVars, mdVars>>

NextCount ==
    \/ OpenCountFile
    \/ ReadCountLine
    \/ CloseCountFile
    \/ MergeAndWrite

SpecCount == InitCount /\ [][NextCount]_vars

(***************************************************************************)
(* Properties of merge_count_files_to_freqs                                *)
(***************************************************************************)
\* A line that declares the total of its file.
IsTotalLine(line) ==
    line.tab /\ NormalizeWord(line.word) = TOTAL /\ IsInt(line.strcount)

\* A line that carries a word: one whose first field, once normalized, is
\* neither empty (such a line is skipped) nor __total__.
IsWordLine(line) ==
    line.tab /\ NormalizeWord(line.word) \notin {<<>>, TOTAL}

\* The total declared for line i of the file being read: the count of the
\* nearest __total__ line above it in the same file, None if there is none.
DeclaredTotal(i) ==
    LET above == { j \in 1 .. i - 1 : IsTotalLine(seen[j]) }
    IN  IF above = {} THEN None
        ELSE <<IntOf(seen[CHOOSE j \in above : \A k \in above : k <= j].strcount)>>

\* The lines of the file being read whose frequency was stored.
StoredLines ==
    { i \in 1 .. Len(seen) :
        IsWordLine(seen[i]) /\ ~(cpc = "raised" /\ i = Len(seen)) }

RECURSIVE SumOfFreqs(_)
SumOfFreqs(I) ==
    IF I = {} THEN RZero
    ELSE LET i == CHOOSE i \in I : TRUE
         IN  RAdd(Rat(IntOf(seen[i].strcount) * UnitsPerOne, DeclaredTotal(i)[1]),
                  SumOfFreqs(I \ {i}))

\* C5: a word line met before its file's __total__ line aborts the run; no
\* frequency is stored with an unknown denominator; the denominator of every
\* stored frequency is the total declared above it in the same file, never
\* one declared in a file read earlier.
C5_TotalBeforeWords ==
    /\ \A i \in 1 .. Len(seen) :
          (IsWordLine(seen[i]) /\ DeclaredTotal(i) = None) =>
              /\ cpc = "raised"
              /\ cerror = IF IsInt(seen[i].strcount) THEN "TypeError" ELSE "ValueError"
              /\ i = Len(seen)
    /\ \A i \in StoredLines : DeclaredTotal(i) \notin {None, <<0>>}
    /\ DOMAIN freq_dict = { NormalizeWord(seen[i].word) : i \in StoredLines }
    /\ \A w \in DOMAIN freq_dict :
          freq_dict[w] =
              SumOfFreqs({ i \in StoredLines : NormalizeWord(seen[i].word) = w })

\* A second file starts with a word line, after a first file that declared
\* a total and stored a frequency.
C5_Witness ==
    /\ cpc = "raised"
    /\ cerror = "TypeError"
    /\ Len(file_freq_dicts) = 1
    /\ file_freq_dicts[1] # << >>
    /\ Len(seen) = 1
    /\ freq_dict = << >>

(***************************************************************************)
(* stream_compressed_lines, preprocess_reddit and preprocess_reddit_lines  *)
(***************************************************************************)
\* Bound: the number of lines in the archive.
MaxArchiveLines == 2

\* The scores data["score"] >= 2 and data["score"] > 2 compare with.
MinScore == 2
MajorityScoreAbove == 2

Filenames == {<<"a", ".", "z", "s", "t">>, <<"a", ".", "z", "s", "t", "d">>, <<"a", ".", "x", "z">>, <<"a", ".", "b", "z", "2">>, <<"a", ".", "g", "z">>}

\* str.endswith(suffix)
EndsWith(s, suffix) ==
    /\ Len(suffix) <= Len(s)
    /\ SubSeq(s, Len(s) - Len(suffix) + 1, Len(s)) = suffix

\* The branch of stream_compressed_lines a filename takes: "zstd", "lzma",
\* "bz2", or "none" when no branch is taken and the function returns None.
Decoder(filename) ==
    IF EndsWith(filename, <<".", "z", "s", "t">>) \/ EndsWith(filename, <<".", "z", "s", "t", "d">>) THEN "zstd"
    ELSE IF EndsWith(filename, <<".", "x", "z">>) THEN "lzma"
    ELSE IF EndsWith(filename, <<".", "b", "z", "2">>) THEN "bz2"
    ELSE "none"

DELETED == <<"[", "d", "e", "l", "e", "t", "e", "d", "]">>
REMOVED == <<"[", "r", "e", "m", "o", "v", "e", "d", "]">>
EN_BODY == <<"&", "g", "t", ";", " ", "*", "h", "i", "*">>
ES_BODY == <<"h", "o", "l", "a", "\r", "\n", "h", "o", "l", "a">>
UND_BODY == <<"?", "?">>
URL_BODY == <<">", " ", "h", "t", "t", "p", ":", "/", "/", "x", "zwsp">>
TextBodies == {EN_BODY, ES_BODY, UND_BODY, URL_BODY}

OK_SUBREDDIT == <<"o", "k">>
BAD_SUBREDDIT == <<"B", "a", "d">>

\* A line of the archive that json.loads rejects.
Malformed == [json |-> FALSE, data |-> << >>]

\* The JSON objects of the archive: a score (null or a number held as <<n>>),
\* a body and a subreddit, any of which may be missing.  A field that the
\* filter never reads, given the fields before it, takes one value only.
RedditData ==
    { [k \in K |-> d[k]] :
        d \in { d \in [score : {None, <<1>>, <<2>>, <<3>>},
                       body : {DELETED, REMOVED} \cup TextBodies,
                       subreddit : {OK_SUBREDDIT, BAD_SUBREDDIT}] : TRUE },
        K \in SUBSET {"score", "body", "subreddit"} }

Relevant(data) ==
    LET low == "score" \notin DOMAIN data \/ data.score \in {None, <<1>>}
        nobody == "body" \notin DOMAIN data \/ data.body \in {DELETED, REMOVED}
    IN  /\ low => /\ {"body", "subreddit"} \subseteq DOMAIN data
                  /\ data.body = EN_BODY
                  /\ data.subreddit = OK_SUBREDDIT
        /\ nobody => /\ "subreddit" \in DOMAIN data
                     /\ data.subreddit = OK_SUBREDDIT

RedditLines ==
    {Malformed} \cup { [json |-> TRUE, data |-> d] : d \in { d \in RedditData : Relevant(d) } }

Archives == UNION { [1 .. n -> RedditLines] : n \in 0 .. MaxArchiveLines }

UpperCase == <<"A", "B", "C", "D", "E", "F", "G", "H", "I", "J", "K", "L", "M", "N", "O", "P", "Q", "R", "S", "T", "U", "V", "W", "X", "Y", "Z">>
LowerCase == <<"a", "b", "c", "d", "e", "f", "g", "h", "i", "j", "k", "l", "m", "n", "o", "p", "q", "r", "s", "t", "u", "v", "w", "x", "y", "z">>

\* str.casefold, on ASCII letters
Casefold(s) ==
    [k \in 1 .. Len(s) |->
        IF \E u \in 1 .. Len(UpperCase) : UpperCase[u] = s[k]
        THEN LowerCase[CHOOSE u \in 1 .. Len(UpperCase) : UpperCase[u] = s[k]]
        ELSE s[k]]

\* mmh3.hash, as an uninterpreted one-to-one function of the name
Mmh3Hash(name) == <<"mmh3", name>>

\* reddit_ban_data.BANNED_SUBREDDITS: the hashes of the banned names
BANNED_SUBREDDITS == {Mmh3Hash(<<"b", "a", "d">>)}

\* language_detection.detect_language_checked: the language code it returns
DetectLanguageChecked(t) ==
    IF t = <<"h", "i">> THEN "en"
    ELSE IF t = <<"h", "o", "l", "a", " ", "h", "o", "l", "a">> THEN "es"
    ELSE "und"

\* ftfy's fix_line_breaks: every line break becomes "\n"
FixLineBreaks(s) == Replace(Replace(s, <<"\r", "\n">>, <<"\n">>), <<"\r">>, <<"\n">>)

\* ftfy's unescape_html, for the entities of the markup characters
UnescapeHtml(s) ==
    Replace(Replace(Replace(s, <<"&", "g", "t", ";">>, <<">">>), <<"&", "l", "t", ";">>, <<"<">>), <<"&", "a", "m", "p", ";">>, <<"&">>)

\* ftfy's fix_surrogates: a text with no surrogate pair is returned as it is
FixSurrogates(s) == s

\* The text of a body: sanitized, stripped of Markdown, of line breaks, of
\* zero-width spaces and of the URLs that are left.
TextOfBody(body) ==
    LET md == FixSurrogates(UnescapeHtml(FixLineBreaks(body)))
        t1 == StripMarkdown(md)
        t2 == Replace(Replace(t1, <<"\n">>, <<" ">>), <<"zwsp">>, <<>>)
    IN  SubUrl(t2, 1)

\* TextOfBody, tabulated over the bodies of the archive
TextTable == [body \in {DELETED, REMOVED} \cup TextBodies |-> TextOfBody(body)]

RedditText(body) == TextTable[body]

\* A faulty variant: the gate of the docstring, English posts at score >= 2.
PassesLanguageGateLenient(lang, score) ==
    lang # "en" \/ score >= MajorityScoreAbove

\* lang != "en" or data["score"] > 2
PassesLanguageGate(lang, score) ==
    lang # "en" \/ score > MajorityScoreAbove

Skip == [kind |-> "skip", item |-> << >>, error |-> NoError]
Raise(error) == [kind |-> "raise", item |-> << >>, error |-> error]
Yield(item) == [kind |-> "yield", item |-> item, error |-> NoError]

\* The body of `for line in input_lines` for one line: what it yields, or
\* the exception it raises.
ProcessRedditLine(line) ==
    IF ~line.json THEN Raise("JSONDecodeError")
    ELSE LET data == line.data
         IN  IF /\ "score" \in DOMAIN data /\ "body" \in DOMAIN data
                /\ data.score # None /\ data.score[1] >= MinScore
                /\ data.body # DELETED /\ data.body # REMOVED
             THEN IF "subreddit" \notin DOMAIN data THEN Raise("KeyError")
                  ELSE IF Mmh3Hash(Casefold(data.subreddit)) \notin BANNED_SUBREDDITS
                  THEN LET t == RedditText(data.body)
                       IN  IF t # <<>>
                           THEN LET lang == DetectLanguageChecked(t)
                                IN  IF lang # "und" /\ PassesLanguageGate(lang, data.score[1])
                                    THEN Yield(<<lang, t>>)
                                    ELSE Skip
                           ELSE Skip
                  ELSE Skip
             ELSE Skip

InitReddit ==
    /\ input_filename \in Filenames
    /\ archive \in Archives
    /\ handle = "unopened"
    /\ input_lines = None
    /\ yielded = {}
    /\ outfile = << >>
    /\ rerror = NoError
    /\ rpc = "call"
    /\ IdleMerge /\ IdleCount /\ IdleMarkdown

\* input_lines = stream_compressed_lines(input_filename): a recognised
\* suffix opens the file and returns the stream over it; any other returns
\* None.  Nothing ever closes what was opened.
StreamCompressedLines ==
    /\ rpc = "call"
    /\ IF Decoder(input_filename) # "none"
       THEN /\ handle' = "open"
            /\ input_lines' = <<archive>>
       ELSE /\ handle' = handle
            /\ input_lines' = None
    /\ rpc' = "loop"
    /\ UNCHANGED <<input_filename, archive, yielded, outfile, rerror>>
    /\ UNCHANGED <<mergeVars, countVars, mdVars>>

\* `for line in input_lines` over None: TypeError
IterateNone ==
    /\ rpc = "loop"
    /\ input_lines = None
    /\ rerror' = "TypeError"
    /\ rpc' = "raised"
    /\ UNCHANGED <<input_filename, archive, handle, input_lines, yielded, outfile>>
    /\ UNCHANGED <<mergeVars, countVars, mdVars>>

\* One line of the stream: it is skipped, or its tagged line is printed, or
\* its exception leaves preprocess_reddit.
ProcessLine ==
    /\ rpc = "loop"
    /\ input_lines # None
    /\ input_lines[1] # <<>>
    /\ LET r == ProcessRedditLine(Head(input_lines[1]))
           position == Len(archive) - Len(input_lines[1]) + 1
       IN  IF r.kind = "raise"
           THEN /\ rerror' = r.error
                /\ rpc' = "raised"
                /\ UNCHANGED <<input_lines, yielded, outfile>>
           ELSE /\ input_lines' = <<Tail(input_lines[1])>>
                /\ yielded' = IF r.kind = "yield" THEN yielded \cup {position} ELSE yielded
                /\ outfile' = IF r.kind = "yield" THEN Append(outfile, r.item) ELSE outfile
                /\ UNCHANGED <<rerror, rpc>>
    /\ UNCHANGED <<input_filename, archive, handle>>
    /\ UNCHANGED <<mergeVars, countVars, mdVars>>

\* The stream is exhausted: preprocess_reddit returns
Exhausted ==
    /\ rpc = "loop"
    /\ input_lines # None
    /\ input_lines[1] = <<>>
    /\ rpc' = "returned"
    /\ UNCHANGED <<input_filename, archive, handle, input_lines, yielded, outfile, rerror>>
    /\ UNCHANGED <<mergeVars, countVars, mdVars>>

NextReddit ==
    \/ StreamCompressedLines
    \/ IterateNone
    \/ ProcessLine
    \/ Exhausted

SpecReddit == InitReddit /\ [][NextReddit]_vars

(***************************************************************************)
(* Properties of the dispatcher and the Reddit filter                      *)
(***************************************************************************)
\* C4: with a filename of no supported suffix stream_compressed_lines fails
\* with an explicit unsupported-format error; it never returns normally with
\* an absent stream.
C4_UnsupportedFails ==
    (rpc # "call" /\ Decoder(input_filename) = "none") =>
        /\ rpc = "raised"
        /\ rerror = "UnsupportedFormat"

\* The lines of the archive that the loop has been through.
Processed ==
    IF input_lines = None THEN {}
    ELSE 1 .. (Len(archive) - Len(input_lines[1]))

\* C6: a line that cannot be parsed is skipped: once the run is over, every
\* record the filter accepts that comes after a malformed line has its
\* TaggedLine in the output.
C6_MalformedSkipped ==
    (rpc \in {"returned", "raised"} /\ Decoder(input_filename) # "none") =>
        \A i, j \in 1 .. Len(archive) :
            (i < j /\ ~archive[i].json /\ ProcessRedditLine(archive[j]).kind = "yield") =>
                \E k \in 1 .. Len(outfile) : outfile[k] = ProcessRedditLine(archive[j]).item

\* A record passes every filter but the score's: its body is present and is
\* no deletion marker, its group is not banned, its text is not empty and its
\* language is not 'und'.
PassesOtherFilters(line) ==
    /\ line.json
    /\ "body" \in DOMAIN line.data
    /\ line.data.body \notin {DELETED, REMOVED}
    /\ "subreddit" \in DOMAIN line.data
    /\ Mmh3Hash(Casefold(line.data.subreddit)) \notin BANNED_SUBREDDITS
    /\ RedditText(line.data.body) # <<>>
    /\ DetectLanguageChecked(RedditText(line.data.body)) # "und"

HasScore(line, n) ==
    /\ "score" \in DOMAIN line.data
    /\ line.data.score = <<n>>

Language(line) == DetectLanguageChecked(RedditText(line.data.body))

C8_HandleReleased ==
    rpc \in {"returned", "raised"} => handle # "open"

(***************************************************************************)
(* strip_markdown, step by step                                            *)
(***************************************************************************)
\* Bound: the number of fragments an input text is made of.
MaxFragments == 3

BOLD == <<"*", "*", "b", "o", "l", "d", "*", "*">>
AND == <<" ", "a", "n", "d", " ">>
LINK == <<"[", "t", "i", "t", "l", "e", "]", "(", "h", "t", "t", "p", ":", "/", "/", "e", "x", "a", "m", "p", "l", "e", ".", "c", "o", "m", "/", "x", ")">>
BARE_URL == <<"h", "t", "t", "p", ":", "/", "/", "b", "a", "r", "e", ".", "e", "x", "a", "m", "p", "l", "e">>
QUOTED == <<">", " ", "q", "u", "o", "t", "e", "d">>
NEWLINE == <<"\n">>
ITALIC == <<"_", "i", "t", "_">>
STRUCK == <<"~", "~", "x", "~", "~">>

Fragments == {BOLD, AND, LINK, BARE_URL, QUOTED, NEWLINE, ITALIC, STRUCK}

\* "**bold** and [title](http://example.com/x) and http://bare.example and > quoted"
ExampleText == BOLD \o AND \o LINK \o AND \o BARE_URL \o AND \o QUOTED

RECURSIVE Concat(_)
Concat(pieces) == IF pieces = <<>> THEN <<>> ELSE Head(pieces) \o Concat(Tail(pieces))

MarkdownInputs ==
    {ExampleText} \cup
    { Concat(fs) : fs \in UNION { [1 .. n -> Fragments] : n \in 0 .. MaxFragments } }

InitMarkdown ==
    /\ md_input \in MarkdownInputs
    /\ text = md_input
    /\ format_re = 1
    /\ mdpc = "links"
    /\ IdleMerge /\ IdleCount /\ IdleReddit

\* text = MARKDOWN_URL_RE.sub(r'\1\2', text)
ResolveLinks ==
    /\ mdpc = "links"
    /\ text' = SubMarkdownUrl(text, 1)
    /\ mdpc' = "urls"
    /\ UNCHANGED <<md_input, format_re>>
    /\ UNCHANGED <<mergeVars, countVars, redditVars>>

\* text = URL_RE.sub('', text)
StripUrls ==
    /\ mdpc = "urls"
    /\ text' = SubUrl(text, 1)
    /\ mdpc' = "formats"
    /\ UNCHANGED <<md_input, format_re>>
    /\ UNCHANGED <<mergeVars, countVars, redditVars>>

\* One iteration of `for format_re in MARKDOWN_FORMAT_RES`
StripFormat ==
    /\ mdpc = "formats"
    /\ format_re <= Len(FormatChars)
    /\ text' = SubFormat(text, 1, FormatChars[format_re])
    /\ format_re' = format_re + 1
    /\ UNCHANGED <<md_input, mdpc>>
    /\ UNCHANGED <<mergeVars, countVars, redditVars>>

\* The split into lines, the lstrip of each, the join: the returned string
JoinLines ==
    /\ mdpc = "formats"
    /\ format_re > Len(FormatChars)
    /\ text' = StripLinePrefixes(text)
    /\ mdpc' = "returned"
    /\ UNCHANGED <<md_input, format_re>>
    /\ UNCHANGED <<mergeVars, countVars, redditVars>>

NextMarkdown ==
    \/ ResolveLinks
    \/ StripUrls
    \/ StripFormat
    \/ JoinLines

SpecMarkdown == InitMarkdown /\ [][NextMarkdown]_vars

(***************************************************************************)
(* Properties of strip_markdown                                            *)
(***************************************************************************)
\* "bold and title and quoted"
ClaimedOutput == <<"b", "o", "l", "d", " ", "a", "n", "d", " ", "t", "i", "t", "l", "e", " ", "a", "n", "d", " ", "q", "u", "o", "t", "e", "d">>

\* "bold and title and  and > quoted"
ActualOutput == <<"b", "o", "l", "d", " ", "a", "n", "d", " ", "t", "i", "t", "l", "e", " ", "a", "n", "d", " ", " ", "a", "n", "d", " ", ">", " ", "q", "u", "o", "t", "e", "d">>

\* C9 as stated: strip_markdown of the example returns
\* "bold and title and quoted".
C9_ExampleAsClaimed ==
    (mdpc = "returned" /\ md_input = ExampleText) => text = ClaimedOutput

\* C9, amended: strip_markdown of the example returns
\* "bold and title and  and > quoted": the link is resolved to its title, the
\* bare URL is removed and the spaces and the "and" around it stay, the
\* emphasis markers are stripped, and the '>' inside the line stays.
C9_ExampleActual ==
    (mdpc = "returned" /\ md_input = ExampleText) => text = ActualOutput

C9_Witness ==
    /\ mdpc = "returned"
    /\ md_input = ExampleText
    /\ text # md_input

====
